---- MODULE Spec2Model ----
(***************************************************************************)
(* A model of weather_chart.py: the Climate temperature store (the         *)
(* constructor's record loop, get_yearly_temp, get_daily_temp) and the     *)
(* regression evaluator (r_squared, evaluate_models_on_training).          *)
(*                                                                         *)
(* Text fields are sequences of one-character strings, so that re.match,   *)
(* int() and float() are modelled by what they do to the characters.       *)
(* A float is a record [k, n, d, e]: k = "fin" stands for (n / d) * 2^e    *)
(* with n and d odd and coprime (zero is n = 0, d = 1, e = 0), k = "nan"   *)
(* and k = "inf" (n the sign) are the IEEE special values.  The mantissa   *)
(* n / d is kept exact (no rounding to 53 bits); the exponent range is     *)
(* float64's at the low end, so that underflow to zero is modelled;        *)
(* overflow to infinity is not.                                            *)
(***************************************************************************)
EXTENDS Integers, Sequences, FiniteSets, TLC

VARIABLES
    rawdata,    \* Climate.rawdata: city -> year -> month -> day -> temperature
    loaded,     \* the records of the file the constructor has consumed so far
    pc,         \* "loading" (inside __init__'s loop), "ready", "failed"
    call,       \* the query being answered, or NoCall
    result,     \* the outcome of that query, or of the failed constructor
    ex,         \* evaluate_models_on_training: argument x
    ey,         \* evaluate_models_on_training: argument y
    emodels,    \* evaluate_models_on_training: argument models
    idx,        \* position of the for loop over models (1-based)
    r_sqr,      \* the local r_sqr: Unbound until first assigned
    titles,     \* per finished iteration: what was plotted and titled
    eexc,       \* the exception that ended the evaluator, or ""
    epc         \* "idle", "loop", "done", "raised"

storeVars == <<rawdata, loaded, pc, call, result>>
evalVars == <<ex, ey, emodels, idx, r_sqr, titles, eexc, epc>>
vars == <<rawdata, loaded, pc, call, result, ex, ey, emodels, idx, r_sqr, titles, eexc, epc>>

(***************************************************************************)
(* Bounds of the model.                                                    *)
(***************************************************************************)
\* most records the constructor reads after the file's initial block
MaxRecords == 3
\* longest sample series given to the evaluator
MaxLen == 3
\* most models given to one evaluator call
MaxModels == 2

(***************************************************************************)
(* Python dicts as functions with a finite domain.                         *)
(***************************************************************************)
EmptyDict == <<>>

Put(f, key, v) == [x \in (DOMAIN f) \cup {key} |-> IF x = key THEN v ELSE f[x]]

(***************************************************************************)
(* Floats.                                                                 *)
(***************************************************************************)
NaN == [k |-> "nan", n |-> 0, d |-> 1, e |-> 0]
Inf(s) == [k |-> "inf", n |-> s, d |-> 1, e |-> 0]
Zero == [k |-> "fin", n |-> 0, d |-> 1, e |-> 0]

Abs(i) == IF i < 0 THEN 0 - i ELSE i

RECURSIVE GCD(_, _)
GCD(a, b) == IF b = 0 THEN a ELSE GCD(b, a % b)

RECURSIVE Pow(_, _)
Pow(b, i) == IF i = 0 THEN 1 ELSE b * Pow(b, i - 1)

\* the exponent of 2 in i (i > 0)
RECURSIVE Twos(_)
Twos(i) == IF i % 2 = 0 THEN 1 + Twos(i \div 2) ELSE 0

\* float64 rounds a nonzero magnitude at or below 2^-1075, half the least
\* subnormal 2^-1074, to zero.  Is (n / d) * 2^e such a magnitude?  Here n
\* and d are odd, positive and below 2^12, so beyond a shift of 12 either
\* way the comparison is decided by the exponent alone.
Underflows(n, d, e) ==
    LET s == e + 1075
    IN  IF s > 12 THEN FALSE
        ELSE IF s < -12 THEN TRUE
        ELSE IF s >= 0 THEN n * Pow(2, s) <= d
        ELSE n <= d * Pow(2, 0 - s)

\* the float for the exact value (num / den) * 2^e, den > 0
Fin(num, den, e) ==
    IF num = 0 THEN Zero
    ELSE LET g  == GCD(Abs(num), den)
             n1 == Abs(num) \div g
             d1 == den \div g
             tn == Twos(n1)
             td == Twos(d1)
             n2 == n1 \div Pow(2, tn)
             d2 == d1 \div Pow(2, td)
             e2 == e + tn - td
         IN  IF Underflows(n2, d2, e2) THEN Zero
             ELSE [k |-> "fin", n |-> (IF num < 0 THEN 0 - n2 ELSE n2), d |-> d2, e |-> e2]

Int2F(i) == Fin(i, 1, 0)

One == Int2F(1)

FNeg(a) == [a EXCEPT !.n = 0 - a.n]

\* float64 a + b.  Two finite nonzero operands whose exponents e lie more
\* than 128 apart differ by a factor above 2^100, more than the 53-bit
\* significand holds: the sum rounds to the operand of larger magnitude.
FAdd(a, b) ==
    IF a.k = "nan" \/ b.k = "nan" THEN NaN
    ELSE IF a.k = "inf" /\ b.k = "inf" THEN (IF a.n = b.n THEN a ELSE NaN)
    ELSE IF a.k = "inf" THEN a
    ELSE IF b.k = "inf" THEN b
    ELSE IF a.n = 0 THEN b
    ELSE IF b.n = 0 THEN a
    ELSE IF a.e - b.e > 128 THEN a
    ELSE IF b.e - a.e > 128 THEN b
    ELSE LET e0 == IF a.e < b.e THEN a.e ELSE b.e
         IN  Fin(a.n * Pow(2, a.e - e0) * b.d + b.n * Pow(2, b.e - e0) * a.d, a.d * b.d, e0)

FSub(a, b) == FAdd(a, FNeg(b))

Sign(i) == IF i < 0 THEN -1 ELSE 1

\* float64 a * b
FMul(a, b) ==
    IF a.k = "nan" \/ b.k = "nan" THEN NaN
    ELSE IF a.k = "inf" \/ b.k = "inf"
    THEN (IF a.n = 0 \/ b.n = 0 THEN NaN ELSE Inf(Sign(a.n) * Sign(b.n)))
    ELSE Fin(a.n * b.n, a.d * b.d, a.e + b.e)

\* numpy float64 a / b: a zero divisor gives nan or an infinity (with a
\* RuntimeWarning), never an exception
FDiv(a, b) ==
    IF a.k = "nan" \/ b.k = "nan" THEN NaN
    ELSE IF a.k = "inf" THEN (IF b.k = "inf" THEN NaN ELSE Inf(Sign(a.n) * Sign(b.n)))
    ELSE IF b.k = "inf" THEN Zero
    ELSE IF b.n = 0 THEN (IF a.n = 0 THEN NaN ELSE Inf(Sign(a.n)))
    ELSE Fin(a.n * b.d * Sign(b.n), a.d * Abs(b.n), a.e - b.e)

RECURSIVE FSum(_)
FSum(s) == IF s = <<>> THEN Zero ELSE FAdd(FSum(SubSeq(s, 1, Len(s) - 1)), s[Len(s)])

(***************************************************************************)
(* Characters and the conversions of the constructor.                      *)
(***************************************************************************)
DigitChars == <<"0", "1", "2", "3", "4", "5", "6", "7", "8", "9">>

IsDigit(c) == \E i \in 1..10 : DigitChars[i] = c

DigitVal(c) == (CHOOSE i \in 1..10 : DigitChars[i] = c) - 1

AllDigits(s) == \A i \in 1..Len(s) : IsDigit(s[i])

\* int(str) of a string of decimal digits
RECURSIVE IntOf(_)
IntOf(s) == IF s = <<>> THEN 0
            ELSE 10 * IntOf(SubSeq(s, 1, Len(s) - 1)) + DigitVal(s[Len(s)])

NoMatch == [matched |-> FALSE, g1 |-> <<>>, g2 |-> <<>>, g3 |-> <<>>]

\* re.match('(\d\d\d\d)(\d\d)(\d\d)', s): anchored at the start only
ReMatchDate(s) ==
    IF Len(s) >= 8 /\ AllDigits(SubSeq(s, 1, 8))
    THEN [matched |-> TRUE, g1 |-> SubSeq(s, 1, 4), g2 |-> SubSeq(s, 5, 6), g3 |-> SubSeq(s, 7, 8)]
    ELSE NoMatch

ValueError == [k |-> "ValueError", n |-> 0, d |-> 1, e |-> 0]

\* position of the first "." in s, or 0
DotAt(s) == IF \E i \in 1..Len(s) : s[i] = "."
            THEN CHOOSE i \in 1..Len(s) : s[i] = "." /\ \A j \in 1..(i - 1) : s[j] # "."
            ELSE 0

\* float(str): optional sign, then nan, inf, or digits with at most one point
ParseFloat(s) ==
    LET neg  == Len(s) >= 1 /\ s[1] = "-"
        body == IF Len(s) >= 1 /\ (s[1] = "-" \/ s[1] = "+") THEN Tail(s) ELSE s
        dot  == DotAt(body)
        ip   == IF dot = 0 THEN body ELSE SubSeq(body, 1, dot - 1)
        fp   == IF dot = 0 THEN <<>> ELSE SubSeq(body, dot + 1, Len(body))
        sgn  == IF neg THEN -1 ELSE 1
    IN  IF body = <<"n", "a", "n">> THEN NaN
        ELSE IF body = <<"i", "n", "f">> THEN Inf(sgn)
        ELSE IF AllDigits(ip) /\ AllDigits(fp) /\ Len(ip) + Len(fp) >= 1
        THEN Fin(sgn * IntOf(ip \o fp), Pow(10, Len(fp)), 0)
        ELSE ValueError

(***************************************************************************)
(* The record source: the (CITY, DATE, TEMP) fields of the file's lines.   *)
(***************************************************************************)
Rec(c, dt, t) == [city |-> c, date |-> dt, temp |-> t]

D_20010105 == <<"2", "0", "0", "1", "0", "1", "0", "5">>
D_20010210 == <<"2", "0", "0", "1", "0", "2", "1", "0">>
D_20020105 == <<"2", "0", "0", "2", "0", "1", "0", "5">>
D_20011305 == <<"2", "0", "0", "1", "1", "3", "0", "5">>
D_200101051 == <<"2", "0", "0", "1", "0", "1", "0", "5", "1">>
D_dashed == <<"2", "0", "0", "1", "-", "0", "1", "-", "0", "5">>

Records ==
    { Rec("BOSTON", D_20010105, <<"1", ".", "5">>),
      Rec("BOSTON", D_20010105, <<"-", "2", ".", "0">>),
      Rec("BOSTON", D_20010210, <<"3", ".", "2", "5">>),
      Rec("BOSTON", D_20020105, <<"1", ".", "5">>),
      Rec("SEATTLE", D_20010105, <<"7">>),
      Rec("BOSTON", D_20011305, <<"4", ".", "0">>),
      Rec("BOSTON", D_200101051, <<"5", ".", "0">>),
      Rec("BOSTON", D_20010105, <<"n", "a", "n">>),
      Rec("BOSTON", D_dashed, <<"1", ".", "5">>),
      Rec("BOSTON", D_20010105, <<"a", "b", "c">>) }

TwoDigits(m) == <<DigitChars[(m \div 10) + 1], DigitChars[(m % 10) + 1]>>

\* a file block holding day 10 of every month of 2001 for SEATTLE, the
\* temperature of month m being m + 0.5
FullYear ==
    [m \in 1..12 |->
        Rec("SEATTLE", <<"2", "0", "0", "1">> \o TwoDigits(m) \o <<"1", "0">>,
            (IF m >= 10 THEN TwoDigits(m) ELSE <<DigitChars[m + 1]>>) \o <<".", "5">>)]

InitialBlocks == {<<>>, FullYear}

(***************************************************************************)
(* Climate.__init__: one iteration of the loop over the file's lines.      *)
(***************************************************************************)
\* an Insert that keeps the temperature a day already has
InsertKeepsFirst(raw, city, year, month, day, temperature) ==
    IF /\ city \in DOMAIN raw
       /\ year \in DOMAIN raw[city]
       /\ month \in DOMAIN raw[city][year]
       /\ day \in DOMAIN raw[city][year][month]
    THEN raw
    ELSE LET r1 == IF city \notin DOMAIN raw THEN Put(raw, city, EmptyDict) ELSE raw
             y1 == IF year \notin DOMAIN r1[city] THEN Put(r1[city], year, EmptyDict) ELSE r1[city]
             m1 == IF month \notin DOMAIN y1[year] THEN Put(y1[year], month, EmptyDict) ELSE y1[year]
         IN  Put(r1, city, Put(y1, year, Put(m1, month, Put(m1[month], day, temperature))))

\* lines 62-68: create the missing levels, then store the temperature
Insert(raw, city, year, month, day, temperature) ==
    LET r1 == IF city \notin DOMAIN raw THEN Put(raw, city, EmptyDict) ELSE raw
        y1 == IF year \notin DOMAIN r1[city] THEN Put(r1[city], year, EmptyDict) ELSE r1[city]
        m1 == IF month \notin DOMAIN y1[year] THEN Put(y1[year], month, EmptyDict) ELSE y1[year]
        d1 == Put(m1[month], day, temperature)
    IN  Put(r1, city, Put(y1, year, Put(m1, month, d1)))

\* lines 52-68 for one line: the new rawdata, or the exception raised
LoadLine(raw, rec) ==
    LET date == ReMatchDate(rec.date)
        temperature == ParseFloat(rec.temp)
    IN  IF ~date.matched
        THEN [ok |-> FALSE, exc |-> "AttributeError", raw |-> raw]
        ELSE IF temperature = ValueError
        THEN [ok |-> FALSE, exc |-> "ValueError", raw |-> raw]
        ELSE [ok |-> TRUE, exc |-> "",
              raw |-> Insert(raw, rec.city, IntOf(date.g1), IntOf(date.g2), IntOf(date.g3),
                             temperature)]

\* the loop of lines 51-68 over a whole block of well-formed lines
RECURSIVE LoadAll(_, _)
LoadAll(raw, recs) ==
    IF recs = <<>> THEN raw ELSE LoadAll(LoadLine(raw, Head(recs)).raw, Tail(recs))

\* a local variable that no assignment has bound yet
Unbound == [k |-> "unbound", n |-> 0, d |-> 1, e |-> 0]

NoCall == [op |-> "none", city |-> "", year |-> 0, month |-> 0, day |-> 0]
NoResult == [kind |-> "none", exc |-> "", msg |-> "", val |-> <<>>]
Raise(exc, msg) == [kind |-> "raise", exc |-> exc, msg |-> msg, val |-> <<>>]
Return(v) == [kind |-> "return", exc |-> "", msg |-> "", val |-> v]

\* the state before any evaluator call
EvalIdle ==
    /\ ex = <<>> /\ ey = <<>> /\ emodels = <<>>
    /\ idx = 0 /\ r_sqr = Unbound /\ titles = <<>> /\ eexc = "" /\ epc = "idle"

\* the number of lines consumed after the file's initial block
ReadCount ==
    IF Len(loaded) >= Len(FullYear) /\ SubSeq(loaded, 1, Len(FullYear)) = FullYear
    THEN Len(loaded) - Len(FullYear)
    ELSE Len(loaded)

ReadLine(rec) ==
    /\ pc = "loading"
    /\ ReadCount < MaxRecords
    /\ LET out == LoadLine(rawdata, rec)
       IN  /\ loaded' = Append(loaded, rec)
           /\ rawdata' = out.raw
           /\ pc' = IF out.ok THEN "loading" ELSE "failed"
           /\ result' = IF out.ok THEN result ELSE Raise(out.exc, "")
    /\ UNCHANGED <<call>>
    /\ UNCHANGED evalVars

\* line 70: the file is exhausted, the constructor returns
EndOfFile ==
    /\ pc = "loading"
    /\ pc' = "ready"
    /\ UNCHANGED <<rawdata, loaded, call, result>>
    /\ UNCHANGED evalVars

(***************************************************************************)
(* The queries.  Each yields the outcome and the rawdata it leaves.        *)
(***************************************************************************)
\* lines 88-90: the loop over range(1, 32) within one month's dict, giving
\* what it appends
RECURSIVE DaysLoop(_, _, _)
DaysLoop(md, day, temperatures) ==
    IF day > 31 THEN temperatures
    ELSE IF day \in DOMAIN md
    THEN DaysLoop(md, day + 1, Append(temperatures, md[day]))
    ELSE DaysLoop(md, day + 1, temperatures)

\* lines 87-91: the loop over range(1, 13); rawdata[city][year][month] is a
\* plain dict subscript, a KeyError when the month has no entry
RECURSIVE YearlyLoop(_, _, _)
YearlyLoop(yd, month, temperatures) ==
    IF month > 12 THEN Return(temperatures)
    ELSE IF month \notin DOMAIN yd THEN Raise("KeyError", "")
    ELSE YearlyLoop(yd, month + 1, temperatures \o DaysLoop(yd[month], 1, <<>>))

get_yearly_temp(raw, city, year) ==
    [raw |-> raw,
     out |-> IF city \notin DOMAIN raw
             THEN Raise("AssertionError", "provided city is not available")
             ELSE IF year \notin DOMAIN raw[city]
             THEN Raise("AssertionError", "provided year is not available")
             ELSE YearlyLoop(raw[city][year], 1, <<>>)]

\* a get_daily_temp that tests the day before the month
get_daily_temp_day_first(raw, city, month, day, year) ==
    [raw |-> raw,
     out |-> IF city \notin DOMAIN raw
             THEN Raise("AssertionError", "provided city is not available")
             ELSE IF year \notin DOMAIN raw[city]
             THEN Raise("AssertionError", "provided year is not available")
             ELSE IF \A m \in DOMAIN raw[city][year] : day \notin DOMAIN raw[city][year][m]
             THEN Raise("AssertionError", "provided day is not available")
             ELSE IF month \notin DOMAIN raw[city][year]
             THEN Raise("AssertionError", "provided month is not available")
             ELSE IF day \notin DOMAIN raw[city][year][month]
             THEN Raise("AssertionError", "provided day is not available")
             ELSE Return(raw[city][year][month][day])]

\* a get_daily_temp that, like the constructor, creates the levels it misses
get_daily_temp_creating(raw, city, month, day, year) ==
    LET r1 == IF city \notin DOMAIN raw THEN Put(raw, city, EmptyDict) ELSE raw
        r2 == IF year \notin DOMAIN r1[city]
              THEN Put(r1, city, Put(r1[city], year, EmptyDict)) ELSE r1
    IN  [raw |-> r2,
         out |-> IF city \notin DOMAIN raw
                 THEN Raise("AssertionError", "provided city is not available")
                 ELSE IF year \notin DOMAIN raw[city]
                 THEN Raise("AssertionError", "provided year is not available")
                 ELSE IF month \notin DOMAIN raw[city][year]
                 THEN Raise("AssertionError", "provided month is not available")
                 ELSE IF day \notin DOMAIN raw[city][year][month]
                 THEN Raise("AssertionError", "provided day is not available")
                 ELSE Return(raw[city][year][month][day])]

get_daily_temp(raw, city, month, day, year) ==
    [raw |-> raw,
     out |-> IF city \notin DOMAIN raw
             THEN Raise("AssertionError", "provided city is not available")
             ELSE IF year \notin DOMAIN raw[city]
             THEN Raise("AssertionError", "provided year is not available")
             ELSE IF month \notin DOMAIN raw[city][year]
             THEN Raise("AssertionError", "provided month is not available")
             ELSE IF day \notin DOMAIN raw[city][year][month]
             THEN Raise("AssertionError", "provided day is not available")
             ELSE Return(raw[city][year][month][day])]

QueryCities == {"BOSTON", "SEATTLE", "MIAMI"}
QueryYears == {2001, 2002}
QueryMonths == {1, 2, 13}
QueryDays == {5, 10}

GetYearlyTemp(city, year) ==
    /\ pc = "ready"
    /\ call = NoCall
    /\ LET r == get_yearly_temp(rawdata, city, year)
       IN  /\ rawdata' = r.raw
           /\ result' = r.out
    /\ call' = [op |-> "get_yearly_temp", city |-> city, year |-> year, month |-> 0, day |-> 0]
    /\ UNCHANGED <<loaded, pc>>
    /\ UNCHANGED evalVars

GetDailyTemp(city, month, day, year) ==
    /\ pc = "ready"
    /\ call = NoCall
    /\ LET r == get_daily_temp(rawdata, city, month, day, year)
       IN  /\ rawdata' = r.raw
           /\ result' = r.out
    /\ call' = [op |-> "get_daily_temp", city |-> city, year |-> year, month |-> month, day |-> day]
    /\ UNCHANGED <<loaded, pc>>
    /\ UNCHANGED evalVars

\* the caller has taken the outcome (lines 197, 204) and may ask again
CallerResumes ==
    /\ pc = "ready"
    /\ call # NoCall
    /\ call' = NoCall
    /\ result' = NoResult
    /\ UNCHANGED <<rawdata, loaded, pc>>
    /\ UNCHANGED evalVars

(***************************************************************************)
(* The evaluator.                                                          *)
(***************************************************************************)
\* np.var(y): the mean of the squared deviations from the mean; nan for an
\* empty series
NpVar(y) ==
    IF Len(y) = 0 THEN NaN
    ELSE LET mean == FDiv(FSum(y), Int2F(Len(y)))
             dev  == [i \in 1..Len(y) |-> FSub(y[i], mean)]
         IN  FDiv(FSum([i \in 1..Len(y) |-> FMul(dev[i], dev[i])]), Int2F(Len(y)))

\* an r_squared that divides the other way round
r_squared_inverted(y, estimated) ==
    LET sq == [i \in 1..Len(estimated) |->
                  FMul(FSub(estimated[i], y[i]), FSub(estimated[i], y[i]))]
    IN  IF Len(estimated) > Len(y) THEN Raise("IndexError", "list index out of range")
        ELSE IF Len(estimated) = 0 THEN Raise("ZeroDivisionError", "division by zero")
        ELSE Return(FSub(One, FDiv(NpVar(y), FDiv(FSum(sq), Int2F(Len(estimated))))))

\* lines 147-151.  With no iteration sum_of_squares is still the int 0 and
\* line 150 is the int division 0 / 0; otherwise the operands are floats.
r_squared(y, estimated) ==
    LET sq == [i \in 1..Len(estimated) |->
                  FMul(FSub(estimated[i], y[i]), FSub(estimated[i], y[i]))]
        sum_of_squares == FSum(sq)
    IN  IF Len(estimated) > Len(y) THEN Raise("IndexError", "list index out of range")
        ELSE IF Len(estimated) = 0 THEN Raise("ZeroDivisionError", "division by zero")
        ELSE LET variance == FDiv(sum_of_squares, Int2F(Len(estimated)))
             IN  Return(FSub(One, FDiv(variance, NpVar(y))))

\* pylab.polyval at one point: y = y * x + c over the coefficients, from 0
RECURSIVE Horner(_, _)
Horner(model, x) ==
    IF model = <<>> THEN Zero
    ELSE FAdd(FMul(Horner(SubSeq(model, 1, Len(model) - 1), x), x), model[Len(model)])

polyval(model, x) == [i \in 1..Len(x) |-> Horner(model, x[i])]

\* lines 178-186 for one model: the estimates, the r_sqr the iteration leaves
\* bound, whether line 181 ran, and the exception raised if any
IterateModel(model, x, y, bound) ==
    LET estimates == polyval(model, x)
        scored  == Len(model) = 2
        score   == IF scored THEN r_squared(y, estimates) ELSE NoResult
        now     == IF scored /\ score.kind = "return" THEN score.val ELSE bound
    IN  [estimates |-> estimates, scored |-> scored, r_sqr |-> now,
         exc |-> IF scored /\ score.kind = "raise" THEN score.exc
                 ELSE IF now = Unbound THEN "UnboundLocalError"
                 ELSE ""]

\* the sample values: small integers, times 2^0 or times 2^-600
Vals == {1, 2, 3}
Scales == {0, -600}

Scaled(s, sc) == [i \in 1..Len(s) |-> Fin(s[i], 1, sc)]

Ramp(len) == [i \in 1..len |-> i]

\* the models: the line x, the line of slope 0 through 2, and x^2
Models ==
    { <<Int2F(1), Int2F(0)>>, <<Int2F(0), Int2F(2)>>,
      <<Int2F(1), Int2F(0), Int2F(0)>> }

ModelLists == UNION {[1..len -> Models] : len \in 0..MaxModels}

\* line 176 is entered: evaluate_models_on_training(x, y, models)
Evaluate(x, y, models) ==
    /\ epc = "idle"
    /\ ex' = x /\ ey' = y /\ emodels' = models
    /\ idx' = 1
    /\ r_sqr' = Unbound
    /\ titles' = <<>>
    /\ eexc' = ""
    /\ epc' = "loop"
    /\ UNCHANGED storeVars

\* one iteration of the loop of lines 176-188
Iterate ==
    /\ epc = "loop"
    /\ idx <= Len(emodels)
    /\ LET it == IterateModel(emodels[idx], ex, ey, r_sqr)
       IN  /\ r_sqr' = it.r_sqr
           /\ eexc' = it.exc
           /\ epc' = IF it.exc = "" THEN "loop" ELSE "raised"
           /\ idx' = IF it.exc = "" THEN idx + 1 ELSE idx
           /\ titles' = IF it.exc = ""
                        THEN Append(titles, [estimates |-> it.estimates,
                                             scored |-> it.scored, r_sqr |-> it.r_sqr])
                        ELSE titles
    /\ UNCHANGED <<ex, ey, emodels>>
    /\ UNCHANGED storeVars

\* the loop is exhausted: the function returns None
EvaluateReturns ==
    /\ epc = "loop"
    /\ idx > Len(emodels)
    /\ epc' = "done"
    /\ UNCHANGED <<ex, ey, emodels, idx, r_sqr, titles, eexc>>
    /\ UNCHANGED storeVars

EvalInit ==
    /\ rawdata = EmptyDict
    /\ loaded = <<>>
    /\ pc = "loading"
    /\ call = NoCall
    /\ result = NoResult
    /\ EvalIdle

EvalNext ==
    \/ \E len \in 0..MaxLen : \E ys \in [1..len -> Vals] : \E sc \in Scales :
          \E models \in ModelLists :
             Evaluate(Scaled(Ramp(len), sc), Scaled(ys, sc), models)
    \/ Iterate
    \/ EvaluateReturns

SpecEval == EvalInit /\ [][EvalNext]_vars

StoreInit ==
    /\ \E blk \in InitialBlocks :
         /\ loaded = blk
         /\ rawdata = LoadAll(EmptyDict, blk)
    /\ pc = "loading"
    /\ call = NoCall
    /\ result = NoResult
    /\ EvalIdle

Init == StoreInit

Next ==
    \/ \E rec \in Records : ReadLine(rec)
    \/ EndOfFile
    \/ \E city \in QueryCities, year \in QueryYears : GetYearlyTemp(city, year)
    \/ \E city \in QueryCities, month \in QueryMonths, day \in QueryDays, year \in QueryYears :
          GetDailyTemp(city, month, day, year)
    \/ CallerResumes

Spec == Init /\ [][Next]_vars

(***************************************************************************)
(* What the claims speak of, read off the file's records.                  *)
(***************************************************************************)
\* a well-formed record: an 8-digit date and a temperature that is a finite number
WellFormed(rec) ==
    /\ Len(rec.date) = 8
    /\ AllDigits(rec.date)
    /\ ParseFloat(rec.temp).k = "fin"

AllWellFormed == \A i \in 1..Len(loaded) : WellFormed(loaded[i])

\* the (year, month, day) a record's leading eight digits denote
DateKey(rec) ==
    [year  |-> IntOf(SubSeq(rec.date, 1, 4)),
     month |-> IntOf(SubSeq(rec.date, 5, 6)),
     day   |-> IntOf(SubSeq(rec.date, 7, 8))]

\* the positions in the file of the records of a city and year
YearHits(city, year) ==
    {i \in 1..Len(loaded) : loaded[i].city = city /\ DateKey(loaded[i]).year = year}

\* the positions in the file of the records carrying a key
KeyHits(city, year, month, day) ==
    {i \in YearHits(city, year) :
        DateKey(loaded[i]).month = month /\ DateKey(loaded[i]).day = day}

Last(S) == CHOOSE i \in S : \A j \in S : j <= i

\* the recorded days of a city and year, as month * 100 + day
RecordedDays(city, year) ==
    {DateKey(loaded[i]).month * 100 + DateKey(loaded[i]).day : i \in YearHits(city, year)}

\* the temperatures of the recorded days, by month and then day, each the
\* one of the last record of that day
InCalendarOrder(city, year) ==
    LET P == RecordedDays(city, year)
    IN  [i \in 1..Cardinality(P) |->
            LET md == CHOOSE q \in P : Cardinality({r \in P : r < q}) = i - 1
            IN  ParseFloat(loaded[Last(KeyHits(city, year, md \div 100, md % 100))].temp)]

\* C1: after a load of well-formed records, get_daily_temp on a key some
\* record carries returns the temperature of the last record carrying it.
C1_LastWriteWins ==
    (pc = "ready" /\ call.op = "get_daily_temp" /\ AllWellFormed
        /\ KeyHits(call.city, call.year, call.month, call.day) # {})
    => result = Return(ParseFloat(
           loaded[Last(KeyHits(call.city, call.year, call.month, call.day))].temp))

\* a key carried by two records with different temperatures has been looked up
C1_Witness ==
    /\ pc = "ready" /\ call.op = "get_daily_temp" /\ AllWellFormed
    /\ result.kind = "return"
    /\ \E i, j \in KeyHits(call.city, call.year, call.month, call.day) :
          i < j /\ ParseFloat(loaded[i].temp) # ParseFloat(loaded[j].temp)

\* C2: get_yearly_temp of a city and year with a recorded observation
\* succeeds and returns the temperatures of the recorded days by month and
\* then day, as many as there are distinct recorded (month, day) pairs.
C2_YearlyRecordedDays ==
    (pc = "ready" /\ call.op = "get_yearly_temp" /\ AllWellFormed
        /\ YearHits(call.city, call.year) # {})
    => /\ result.kind = "return"
       /\ Len(result.val) = Cardinality(RecordedDays(call.city, call.year))
       /\ result.val = InCalendarOrder(call.city, call.year)

\* C3: a lookup with an absent key level reports the first absent level, in
\* the order city, year, month, day (city, year for get_yearly_temp), and
\* returns nothing.
C3_FirstAbsentLevel ==
    (pc = "ready" /\ call.op # "none") =>
        LET cityIn  == \E i \in 1..Len(loaded) : loaded[i].city = call.city
            yearIn  == YearHits(call.city, call.year) # {}
            monthIn == \E i \in YearHits(call.city, call.year) :
                           DateKey(loaded[i]).month = call.month
            dayIn   == KeyHits(call.city, call.year, call.month, call.day) # {}
        IN  /\ ~cityIn => result = Raise("AssertionError", "provided city is not available")
            /\ (cityIn /\ ~yearIn) =>
                   result = Raise("AssertionError", "provided year is not available")
            /\ (call.op = "get_daily_temp" /\ yearIn /\ ~monthIn) =>
                   result = Raise("AssertionError", "provided month is not available")
            /\ (call.op = "get_daily_temp" /\ monthIn /\ ~dayIn) =>
                   result = Raise("AssertionError", "provided day is not available")

\* a daily lookup has missed at the month level, and so at the day level too
C3_Witness ==
    /\ pc = "ready" /\ call.op = "get_daily_temp"
    /\ YearHits(call.city, call.year) # {}
    /\ \A i \in YearHits(call.city, call.year) : DateKey(loaded[i]).month # call.month
    /\ result.msg = "provided month is not available"

\* C4: a record whose date is not an 8-digit string or whose temperature is
\* not a finite number makes the construction fail at that record.
C4_MalformedRejected ==
    \A i \in 1..Len(loaded) :
        ~WellFormed(loaded[i]) => (pc = "failed" /\ i = Len(loaded))

\* C9: once the constructor has returned, no query changes rawdata.
C9_ReadOnlyAfterLoad == [][pc = "ready" => rawdata' = rawdata]_vars

\* a lookup has failed on a store that holds observations
C9_Witness ==
    /\ pc = "ready" /\ call.op # "none" /\ result.kind = "raise"
    /\ rawdata # EmptyDict

\* C10: after a load of records with 8-digit dates, every stored observation
\* has its month in 1..12 and its day in 1..31.
C10_CalendarRanges ==
    (pc = "ready" /\ \A i \in 1..Len(loaded) : Len(loaded[i].date) = 8 /\ AllDigits(loaded[i].date))
    => \A c \in DOMAIN rawdata : \A y \in DOMAIN rawdata[c] : \A m \in DOMAIN rawdata[c][y] :
           /\ m \in 1..12
           /\ \A d \in DOMAIN rawdata[c][y][m] : d \in 1..31

(***************************************************************************)
(* The evaluator's claims.                                                 *)
(***************************************************************************)
ConstantSeries(y) == \A i, j \in 1..Len(y) : y[i] = y[j]

\* the evaluator has dealt with its first model, a linear one
FirstLinearHandled ==
    /\ epc # "idle"
    /\ Len(emodels) >= 1
    /\ Len(emodels[1]) = 2
    /\ (idx > 1 \/ epc = "raised")

\* C5: scoring a linear model against a constant, non-empty y fails with
\* EmptySeriesError; r_squared returns no value for it.
C5_ConstantSeriesRejected ==
    (FirstLinearHandled /\ Len(ey) >= 1 /\ ConstantSeries(ey))
    => (epc = "raised" /\ eexc = "EmptySeriesError" /\ titles = <<>>)

\* C6: scoring a linear model against an empty y fails with EmptySeriesError,
\* a check made before any division.
C6_EmptySeriesRejected ==
    (FirstLinearHandled /\ Len(ey) = 0)
    => (epc = "raised" /\ eexc = "EmptySeriesError")

\* C7: for a non-empty y, the score reported for every model is the one
\* r_squared gives for that model's own estimates, and it is never unbound.
C7_OwnScoreForEveryModel ==
    Len(ey) >= 1 =>
        /\ \A i \in 1..Len(titles) :
              titles[i].r_sqr = r_squared(ey, polyval(emodels[i], ex)).val
        /\ eexc # "UnboundLocalError"

====
